---- MODULE Spec2Model ----
(***************************************************************************)
(* Guess intake and broadcast pipeline of the Contexto TikTok-live game    *)
(* (src/app.py).  One asyncio event loop runs the queue worker             *)
(* process_guess_queue, the TikTok event handlers (on_comment, on_gift,    *)
(* on_connect) and the websocket handlers.  Scheduling is cooperative: an  *)
(* action of this module is the code one task runs between two points      *)
(* where it really suspends (a network call, a timer, a websocket send,    *)
(* a get on the empty queue).                                              *)
(***************************************************************************)
EXTENDS Integers, Sequences, FiniteSets, TLC

\* ---------------------------------------------------------------- bounds
MaxComments == 2        \* comment events delivered by the live source
MaxClients == 1         \* websocket connections that exist
MaxResets == 1          \* reset_game / on_connect events
MaxExtraGifts == 1      \* further on_gift tasks in flight
NumGames == 2           \* stands for random.randint(1, 1184)
NumWords == 2           \* vocabulary of normalised words
NumUsers == 2           \* participants
NumGifters == 1         \* participants who send gifts
TickMs == 100           \* granularity of the clock, in milliseconds
MaxConns == 2           \* websocket connections of the hub specification
MaxCasts == 2           \* broadcast_to_clients calls of the hub specification
CacheCapacity == 2      \* stands for MAX_AVATAR_CACHE = 50
NumCacheUsers == 3      \* participants whose avatar is resolved
NumAvatars == 2         \* avatar images a fetch can return
MaxInFlight == 2        \* get_cached_avatar calls suspended in fetch_func
MaxLen == 4             \* length of a raw comment text
MaxDistance == 8        \* largest distance of a recorded guess
NumBoardWords == 4      \* words of a round at the time of the winner

\* ------------------------------------------------------ program constants
SEMAPHORE_PERMITS == 3          \* api_semaphore = asyncio.Semaphore(3)
MIN_REQUEST_INTERVAL == 100     \* 0.1 s, in milliseconds

Games == 1..NumGames
Words == 1..NumWords
Users == 1..NumUsers
Gifters == 1..NumGifters
Clients == 1..MaxClients
ItemIds == 1..MaxComments
Conns == 1..MaxConns
CacheUsers == 1..NumCacheUsers
Avatars == 1..NumAvatars

Max(a, b) == IF a >= b THEN a ELSE b
Min(a, b) == IF a <= b THEN a ELSE b

VARIABLES
    game_number,        \* game_state['game_number']
    guesses,            \* game_state['guesses']: word -> [distance, user]
    guessed_words,      \* game_state['guessed_words']
    round,              \* number of init_new_game calls so far (history)
    api_queue,          \* api_queue: sequence of items, NoneItem = sentinel
    ncomments,          \* comment events handled so far
    enqueued,           \* items put on api_queue so far (gives item ids)
    commentTasks,       \* on_comment tasks suspended in get_cached_avatar
    worker,             \* process_guess_queue: position and locals
    gift,               \* the on_gift task: position and locals
    hinting,            \* connections whose handler awaits handle_free_hint
    websocket_clients,  \* the live subscriber set
    shutdown,           \* items queued before the sentinel, NotYet before it
    blog,               \* broadcasts the worker has emitted (history)
    calls,              \* item id -> fetch_contexto_api calls made for it
    dropped,            \* ids of the items whose call returned None (history)
    extraTips,          \* further on_gift tasks awaiting fetch_contexto_tip
    elapsed,            \* ms since the last dispatch started (saturating)
    conn,               \* hub: position of each connection's websocket_handler
    broken,             \* hub: connections whose peer is gone
    inbox,              \* hub: the messages written to each connection
    casts,              \* hub: the broadcast_to_clients calls, in call order
    avatar_cache,       \* avatar_cache: entries [user, url] in insertion order
    cache_files,        \* AVATAR_CACHE_DIR: user hash -> file content, 0 = no file
    fetching,           \* user -> get_cached_avatar calls awaiting fetch_func
    cop,                \* the last step of get_cached_avatar (history)
    dupTasks,           \* on_comment tasks in the already_guessed branch
    dlog,               \* already_guessed broadcasts called so far (history)
    pin,                \* the input a function of the program is applied to
    pout                \* what the function returned or did

vars == <<game_number, guesses, guessed_words, round, api_queue, ncomments,
          enqueued, commentTasks, worker, gift, hinting, websocket_clients,
          shutdown, blog, calls, dropped, extraTips, elapsed,
          conn, broken, inbox, casts,
          avatar_cache, cache_files, fetching, cop, dupTasks, dlog, pin,
          pout>>

gameVars == <<game_number, guesses, guessed_words, round>>
intakeVars == <<ncomments, enqueued, commentTasks>>
timeVars == <<elapsed>>
hubVars == <<conn, broken, inbox, casts>>
cacheVars == <<avatar_cache, cache_files, fetching, cop>>
pureVars == <<pin, pout>>
dupVars == <<dupTasks, dlog>>
sideVars == <<hubVars, cacheVars, pureVars>>
auxVars == <<sideVars, dupVars>>
coreVars == <<api_queue, intakeVars, worker, gift, hinting, shutdown, blog,
              calls, dropped, timeVars, extraTips, dupVars>>

\* ------------------------------------------------- the ranking service
\* GET /game/{game_no}/{word}: the rank of word in game game_no.  Every game
\* ranks the vocabulary 0, 1, 2, ... with exactly one word at distance 0.
ContextoDistance(g, w) == (w - g) % NumWords

\* GET /tip/{game_no}/{distance}: the word at that rank, 0 when there is none.
ContextoTip(g, d) ==
    IF \E w \in Words : ContextoDistance(g, w) = d
    THEN CHOOSE w \in Words : ContextoDistance(g, w) = d
    ELSE 0

\* ------------------------------------------------------------ the queue
NoneItem == [id |-> 0, word |-> 0, user |-> 0]

NotYet == 0 - 1

\* ------------------------------------------------------- broadcast sweeps
\* The state of one `for ws in websocket_clients` loop: the size the set
\* iterator recorded, the connections already sent to, those whose send
\* raised, and the connection whose send_json is being awaited.
NoSweep == [snap |-> 0, visited |-> {}, failed |-> {}, cur |-> 0]

\* The set iterator walks the hash table by slot; a connection's number
\* stands for the slot of its object, so a sweep hands out the connections
\* in ascending order, starting with the least.
BeginSweeps(cl) ==
    {[snap |-> Cardinality(cl), visited |-> {}, failed |-> {}, cur |-> c] :
        c \in {x \in cl : \A y \in cl : x <= y}}

\* The awaited send_json returned (ok) or raised (~ok); the loop then asks
\* the set iterator for the next connection.
AfterSend(sw, ok) ==
    [sw EXCEPT !.visited = @ \cup {sw.cur},
               !.failed = IF ok THEN @ ELSE @ \cup {sw.cur}]

\* The set iterator raises RuntimeError when the set's size is not the one
\* it recorded.
SweepRaises(sw, cl) == Cardinality(cl) # sw.snap

\* The connection the iterator hands out next: the first one of the set
\* behind the position of the iterator (none: the loop ends).
SweepNext(sw, cl) ==
    {x \in cl : x > sw.cur /\ \A y \in cl : y > sw.cur => x <= y}

\* ------------------------------------------------------------ round state
EmptyGuesses == [w \in {} |-> [distance |-> 0, user |-> 0]]

StoreGuess(g, w, d, u) ==
    [x \in (DOMAIN g) \cup {w} |->
        IF x = w THEN [distance |-> d, user |-> u] ELSE g[x]]

LowestDistance(g) ==
    CHOOSE d \in {g[w].distance : w \in DOMAIN g} :
        \A w \in DOMAIN g : d <= g[w].distance

\* HintDistance without the clamp.
HintDistanceUnclamped(g) == LowestDistance(g) \div 2

HintDistance(g) == Max(1, LowestDistance(g) \div 2)

HasWinner == \E w \in DOMAIN guesses : guesses[w].distance = 0

\* init_new_game
InitNewGame(g) ==
    /\ game_number' = g
    /\ guesses' = EmptyGuesses
    /\ guessed_words' = {}
    /\ round' = round + 1

\* ------------------------------------------------------------ the worker
\* process_guess_queue.  pc: "get" (awaiting api_queue.get on the empty
\* queue), "fetch" (awaiting fetch_contexto_api), "notify", "winner",
\* "update", "game_start" (awaiting a send_json of that broadcast), "sleep"
\* (awaiting asyncio.sleep(10)), "done" (left the loop).
WorkerAt(pc) == [pc |-> pc, item |-> NoneItem, game |-> 0, distance |-> 0,
                 sw |-> NoSweep]

SweepPcs == {"notify", "winner", "update", "game_start"}

\* What one step of the worker reads and writes, as a record.
Cur == [game_number |-> game_number, guesses |-> guesses,
        guessed_words |-> guessed_words, round |-> round,
        api_queue |-> api_queue, calls |-> calls, blog |-> blog,
        dropped |-> dropped,
        clients |-> websocket_clients, worker |-> worker, disp |-> FALSE]

\* W_Loop with a queue that hands out its newest item first.
W_LoopLifo(s) ==
    IF s.api_queue = <<>>
    THEN {[s EXCEPT !.worker = WorkerAt("get")]}
    ELSE LET n == Len(s.api_queue)
             it == s.api_queue[n] IN
         IF it = NoneItem
         THEN {[s EXCEPT !.worker = WorkerAt("done"),
                         !.api_queue = SubSeq(s.api_queue, 1, n - 1)]}
         ELSE {[s EXCEPT !.worker = [WorkerAt("fetch") EXCEPT
                                        !.item = it, !.game = s.game_number],
                         !.api_queue = SubSeq(s.api_queue, 1, n - 1),
                         !.calls[it.id] = @ + 1,
                         !.disp = TRUE]}

\* Top of the loop: api_queue.get() returns at once when the queue holds an
\* item; the sentinel ends the loop, any other item is sent to the ranking
\* service with the game number of this moment.
W_Loop(s) ==
    IF s.api_queue = <<>>
    THEN {[s EXCEPT !.worker = WorkerAt("get")]}
    ELSE LET it == Head(s.api_queue) IN
         IF it = NoneItem
         THEN {[s EXCEPT !.worker = WorkerAt("done"),
                         !.api_queue = Tail(s.api_queue)]}
         ELSE {[s EXCEPT !.worker = [WorkerAt("fetch") EXCEPT
                                        !.item = it, !.game = s.game_number],
                         !.api_queue = Tail(s.api_queue),
                         !.calls[it.id] = @ + 1,
                         !.disp = TRUE]}

W_Sleep(s) == {[s EXCEPT !.worker.pc = "sleep", !.worker.sw = NoSweep]}

\* broadcast_to_clients returns at once when there is no subscriber, else
\* the worker suspends in the first send_json.
W_Sweeps(s, pc) ==
    {[s EXCEPT !.worker.pc = pc, !.worker.sw = sw] :
        sw \in BeginSweeps(s.clients)}

\* The worker calls broadcast_to_clients with an event of this type for the
\* item it holds; blog records the call.
W_Logged(s, type) ==
    [s EXCEPT !.blog = Append(@, [type |-> type, id |-> s.worker.item.id])]

W_BroadcastUpdate(s) ==
    LET t == W_Logged(s, "guess_update") IN
    IF t.clients = {} THEN W_Loop(t) ELSE W_Sweeps(t, "update")

W_BroadcastWinner(s) ==
    LET t == W_Logged(s, "winner") IN
    IF t.clients = {} THEN W_Sleep(t) ELSE W_Sweeps(t, "winner")

W_BroadcastGameStart(s) ==
    LET t == W_Logged(s, "game_start") IN
    IF t.clients = {} THEN W_Loop(t) ELSE W_Sweeps(t, "game_start")

\* W_Store without guessed_words.add(word).
W_StoreNoAdd(s) ==
    LET w == s.worker.item.word
        t == [s EXCEPT !.guesses = StoreGuess(@, w, s.worker.distance,
                                              s.worker.item.user)]
    IN  IF s.worker.distance = 0
        THEN W_BroadcastWinner(t)
        ELSE W_BroadcastUpdate(t)

\* guessed_words.add(word); guesses[word] = {...}; then the winner branch
\* or the guess_update branch.
W_Store(s) ==
    LET w == s.worker.item.word
        t == [s EXCEPT !.guessed_words = @ \cup {w},
                       !.guesses = StoreGuess(@, w, s.worker.distance,
                                              s.worker.item.user)]
    IN  IF s.worker.distance = 0
        THEN W_BroadcastWinner(t)
        ELSE W_BroadcastUpdate(t)

W_BroadcastNotify(s) ==
    LET t == W_Logged(s, "guess_notification") IN
    IF t.clients = {} THEN W_Store(t) ELSE W_Sweeps(t, "notify")

\* The code after the broadcast whose sweep has just ended.
W_SweepDone(s) ==
    CASE s.worker.pc = "notify" -> W_Store(s)
      [] s.worker.pc = "winner" -> W_Sleep(s)
      [] OTHER -> W_Loop(s)

Dispatch(disp) ==
    IF disp
    THEN elapsed' = 0
    ELSE UNCHANGED timeVars

WorkerCommit(r) ==
    /\ game_number' = r.game_number
    /\ guesses' = r.guesses
    /\ guessed_words' = r.guessed_words
    /\ round' = r.round
    /\ api_queue' = r.api_queue
    /\ calls' = r.calls
    /\ blog' = r.blog
    /\ dropped' = r.dropped
    /\ websocket_clients' = r.clients
    /\ worker' = r.worker
    /\ Dispatch(r.disp)
    /\ UNCHANGED <<intakeVars, gift, hinting, shutdown, extraTips, auxVars>>

\* api_queue.get() returns to the waiting worker.
WorkerGet ==
    /\ worker.pc = "get"
    /\ api_queue # <<>>
    /\ \E r \in W_Loop(Cur) : WorkerCommit(r)

\* WorkerFetchFails that leaves the loop.
WorkerFetchFailsBreaks ==
    /\ worker.pc = "fetch"
    /\ WorkerCommit([Cur EXCEPT !.dropped = @ \cup {worker.item.id},
                                !.worker = WorkerAt("done")])

\* WorkerFetchFails with a retry: the item goes back on the queue.
WorkerFetchFailsRetry ==
    /\ worker.pc = "fetch"
    /\ \E r \in W_Loop([Cur EXCEPT !.dropped = @ \cup {worker.item.id},
                                   !.api_queue = Append(@, worker.item)]) :
         WorkerCommit(r)

\* fetch_contexto_api returned None (non-200, timeout, malformed payload):
\* task_done and continue.
WorkerFetchFails ==
    /\ worker.pc = "fetch"
    /\ \E r \in W_Loop([Cur EXCEPT !.dropped = @ \cup {worker.item.id}]) :
         WorkerCommit(r)

\* fetch_contexto_api returned the distance of the word in the game it was
\* asked about.
WorkerFetchReturns ==
    /\ worker.pc = "fetch"
    /\ LET d == ContextoDistance(worker.game, worker.item.word) IN
       \E r \in W_BroadcastNotify([Cur EXCEPT !.worker.distance = d]) :
           WorkerCommit(r)

\* WorkerSend in which the RuntimeError of the for loop ends the worker task.
WorkerSendDies(ok) ==
    /\ worker.pc \in SweepPcs
    /\ LET sw == AfterSend(worker.sw, ok) IN
       IF SweepRaises(sw, websocket_clients)
       THEN WorkerCommit([Cur EXCEPT !.worker = WorkerAt("done")])
       ELSE IF SweepNext(sw, websocket_clients) # {}
       THEN /\ \E c \in SweepNext(sw, websocket_clients) :
                 worker' = [worker EXCEPT !.sw = [sw EXCEPT !.cur = c]]
            /\ UNCHANGED <<gameVars, api_queue, intakeVars, gift, hinting,
                           websocket_clients, shutdown, blog, calls, dropped,
                           timeVars, extraTips, auxVars>>
       ELSE \E r \in W_SweepDone(
                [Cur EXCEPT !.clients = @ \ sw.failed,
                            !.worker.sw = NoSweep]) :
                WorkerCommit(r)

\* An awaited send_json of the worker's sweep returns or raises.  A changed
\* set size makes the for loop raise RuntimeError, which the worker's
\* `except Exception` turns into task_done and the next loop iteration.
WorkerSend(ok) ==
    /\ worker.pc \in SweepPcs
    /\ LET sw == AfterSend(worker.sw, ok) IN
       IF SweepRaises(sw, websocket_clients)
       THEN \E r \in W_Loop(Cur) : WorkerCommit(r)
       ELSE IF SweepNext(sw, websocket_clients) # {}
       THEN /\ \E c \in SweepNext(sw, websocket_clients) :
                 worker' = [worker EXCEPT !.sw = [sw EXCEPT !.cur = c]]
            /\ UNCHANGED <<gameVars, api_queue, intakeVars, gift, hinting,
                           websocket_clients, shutdown, blog, calls, dropped,
                           timeVars, extraTips, auxVars>>
       ELSE \E r \in W_SweepDone(
                [Cur EXCEPT !.clients = @ \ sw.failed,
                            !.worker.sw = NoSweep]) :
                WorkerCommit(r)

\* asyncio.sleep(10) returns: init_new_game, then the game_start broadcast.
WorkerWake ==
    /\ worker.pc = "sleep"
    /\ \E g \in Games :
         \E r \in W_BroadcastGameStart(
                [Cur EXCEPT !.game_number = g, !.guesses = EmptyGuesses,
                            !.guessed_words = {}, !.round = @ + 1]) :
             WorkerCommit(r)

\* cleanup_background_tasks awaits the worker and then ends the process: the
\* sources deliver events only while the worker task is alive.
Running == worker.pc # "done"

\* ---------------------------------------------------------------- intake
\* api_queue.put((event, word, avatar_url)); the queue is unbounded, put
\* never waits.
Put(u, w) ==
    /\ api_queue' = Append(api_queue, [id |-> enqueued + 1, word |-> w,
                                       user |-> u])
    /\ enqueued' = enqueued + 1

\* The already_guessed branch of on_comment for comment number n:
\* existing_data is read at the duplicate test; pc is "avatar" (awaiting
\* get_cached_avatar) or "send" (awaiting a send_json of the broadcast).
\* seen is history: the distance stored for the word at the test.
DupAt(n, u, w, d) ==
    [n |-> n, user |-> u, word |-> w, distance |-> d, seen |-> d,
     pc |-> "avatar", sw |-> NoSweep]

\* broadcast_to_clients({'type': 'already_guessed', ...}) of task t: it
\* returns at once without subscribers, and the handler returns; else the
\* task suspends in the first send_json.
DupBroadcast(t) ==
    /\ dlog' = Append(dlog, [n |-> t.n, word |-> t.word,
                             distance |-> t.distance, seen |-> t.seen])
    /\ IF websocket_clients = {}
       THEN dupTasks' = dupTasks \ {t}
       ELSE \E sw \in BeginSweeps(websocket_clients) :
               dupTasks' = (dupTasks \ {t}) \cup
                               {[t EXCEPT !.pc = "send", !.sw = sw]}

\* on_comment with the normalised word w of user u.  A word already in
\* guessed_words takes the already_guessed branch; otherwise the avatar is
\* resolved (at once on a cache hit, after a suspension in fetch_avatar on a
\* miss) and the item is queued.
CommentArrives(u, w) ==
    /\ Running
    /\ ncomments < MaxComments
    /\ ncomments' = ncomments + 1
    /\ IF w \in guessed_words
       THEN /\ UNCHANGED <<api_queue, enqueued, commentTasks>>
            /\ IF w \notin DOMAIN guesses
               THEN UNCHANGED dupVars
               ELSE LET t == DupAt(ncomments + 1, u, w, guesses[w].distance)
                    IN  \/ DupBroadcast(t)
                        \/ /\ dupTasks' = dupTasks \cup {t}
                           /\ UNCHANGED dlog
       ELSE /\ \/ /\ Put(u, w)
                  /\ UNCHANGED commentTasks
               \/ /\ [user |-> u, word |-> w] \notin commentTasks
                  /\ commentTasks' =
                         commentTasks \cup {[user |-> u, word |-> w]}
                  /\ UNCHANGED <<api_queue, enqueued>>
            /\ UNCHANGED dupVars
    /\ UNCHANGED <<gameVars, worker, gift, hinting, websocket_clients,
                   shutdown, blog, calls, dropped, timeVars, extraTips,
                   sideVars>>

\* get_cached_avatar returns to a suspended on_comment, which queues its item.
CommentAvatarReturns(t) ==
    /\ t \in commentTasks
    /\ commentTasks' = commentTasks \ {t}
    /\ Put(t.user, t.word)
    /\ UNCHANGED <<gameVars, ncomments, worker, gift, hinting,
                   websocket_clients, shutdown, blog, calls, dropped, timeVars, extraTips,
                   auxVars>>

\* get_cached_avatar returns to an on_comment suspended in the
\* already_guessed branch, which broadcasts.
DupAvatarReturns(t) ==
    /\ t \in dupTasks
    /\ t.pc = "avatar"
    /\ DupBroadcast(t)
    /\ UNCHANGED <<gameVars, api_queue, intakeVars, worker, gift, hinting,
                   websocket_clients, shutdown, blog, calls, dropped,
                   timeVars, extraTips, sideVars>>

\* DupSend that queues the comment once the broadcast is over.
DupSendThenQueues(t, ok) ==
    /\ t \in dupTasks
    /\ t.pc = "send"
    /\ UNCHANGED dlog
    /\ LET sw == AfterSend(t.sw, ok) IN
       IF SweepRaises(sw, websocket_clients)
       THEN /\ dupTasks' = dupTasks \ {t}
            /\ UNCHANGED <<websocket_clients, api_queue, enqueued>>
       ELSE IF SweepNext(sw, websocket_clients) # {}
       THEN /\ \E c \in SweepNext(sw, websocket_clients) :
                 dupTasks' = (dupTasks \ {t}) \cup
                                 {[t EXCEPT !.sw = [sw EXCEPT !.cur = c]]}
            /\ UNCHANGED <<websocket_clients, api_queue, enqueued>>
       ELSE /\ dupTasks' = dupTasks \ {t}
            /\ websocket_clients' = websocket_clients \ sw.failed
            /\ Put(t.user, t.word)
    /\ UNCHANGED <<gameVars, ncomments, commentTasks, worker, gift, hinting,
                   shutdown, blog, calls, dropped, timeVars, extraTips,
                   sideVars>>

\* A send_json of the already_guessed broadcast returns or raises; a
\* RuntimeError of the sweep is caught by the except of on_comment; after
\* the broadcast the handler returns.
DupSend(t, ok) ==
    /\ t \in dupTasks
    /\ t.pc = "send"
    /\ UNCHANGED dlog
    /\ LET sw == AfterSend(t.sw, ok) IN
       IF SweepRaises(sw, websocket_clients)
       THEN /\ dupTasks' = dupTasks \ {t}
            /\ UNCHANGED <<websocket_clients, api_queue, enqueued>>
       ELSE IF SweepNext(sw, websocket_clients) # {}
       THEN /\ \E c \in SweepNext(sw, websocket_clients) :
                 dupTasks' = (dupTasks \ {t}) \cup
                                 {[t EXCEPT !.sw = [sw EXCEPT !.cur = c]]}
            /\ UNCHANGED <<websocket_clients, api_queue, enqueued>>
       ELSE /\ dupTasks' = dupTasks \ {t}
            /\ websocket_clients' = websocket_clients \ sw.failed
            /\ UNCHANGED <<api_queue, enqueued>>
    /\ UNCHANGED <<gameVars, ncomments, commentTasks, worker, gift, hinting,
                   shutdown, blog, calls, dropped, timeVars, extraTips,
                   sideVars>>

\* ------------------------------------------------------------------ gifts
\* on_gift.  pc: "idle", "tip" (awaiting fetch_contexto_tip), "hint" and
\* "update" (awaiting a send_json of that broadcast), "avatar" (awaiting
\* get_cached_avatar).
GiftAt(pc) == [pc |-> pc, user |-> 0, hint |-> 0, tip |-> 0, game |-> 0,
               sw |-> NoSweep]

GCur == [guesses |-> guesses, guessed_words |-> guessed_words,
         clients |-> websocket_clients, gift |-> gift]

G_Done(s) == {[s EXCEPT !.gift = GiftAt("idle")]}

G_Sweeps(s, pc) ==
    {[s EXCEPT !.gift.pc = pc, !.gift.sw = sw] :
        sw \in BeginSweeps(s.clients)}

G_BroadcastUpdate(s) ==
    IF s.clients = {} THEN G_Done(s) ELSE G_Sweeps(s, "update")

\* guessed_words.add(tip_word); guesses[tip_word] = {distance:
\* hint_distance, user: gifter}; then the guess_update broadcast.
G_Store(s) ==
    G_BroadcastUpdate(
        [s EXCEPT !.guessed_words = @ \cup {s.gift.tip},
                  !.guesses = StoreGuess(@, s.gift.tip, s.gift.hint,
                                         s.gift.user),
                  !.gift.sw = NoSweep])

\* get_cached_avatar: a cache hit returns at once, a miss suspends.
G_Avatar(s) ==
    G_Store(s) \cup {[s EXCEPT !.gift.pc = "avatar", !.gift.sw = NoSweep]}

\* if tip_word not in guessed_words: ... else: nothing
G_AfterHint(s) ==
    IF s.gift.tip \notin s.guessed_words THEN G_Avatar(s) ELSE G_Done(s)

G_BroadcastHint(s) ==
    IF s.clients = {} THEN G_AfterHint(s) ELSE G_Sweeps(s, "hint")

G_SweepDone(s) ==
    IF s.gift.pc = "hint" THEN G_AfterHint(s) ELSE G_Done(s)

GiftCommit(r) ==
    /\ guesses' = r.guesses
    /\ guessed_words' = r.guessed_words
    /\ websocket_clients' = r.clients
    /\ gift' = r.gift
    /\ UNCHANGED <<game_number, round, api_queue, intakeVars, worker,
                   hinting, shutdown, blog, calls, dropped, timeVars, extraTips,
                   auxVars>>

\* A gift whose streak has ended arrives while the round has guesses: the
\* hint distance is computed and the tip requested.  (A streaking gift, or
\* a gift in a round without guesses, returns without any effect.)
GiftArrives(u) ==
    /\ Running
    /\ gift.pc = "idle"
    /\ DOMAIN guesses # {}
    /\ gift' = [GiftAt("tip") EXCEPT !.user = u,
                                     !.hint = HintDistance(guesses),
                                     !.game = game_number]
    /\ Dispatch(TRUE)
    /\ UNCHANGED <<gameVars, api_queue, intakeVars, worker, hinting,
                   websocket_clients, shutdown, blog, calls, dropped, extraTips,
                   auxVars>>

\* fetch_contexto_tip returned None.
GiftTipFails ==
    /\ gift.pc = "tip"
    /\ \E r \in G_Done(GCur) : GiftCommit(r)

\* fetch_contexto_tip returned the word at the requested rank.
GiftTipReturns ==
    /\ gift.pc = "tip"
    /\ LET t == ContextoTip(gift.game, gift.hint) IN
       \E r \in (IF t = 0 THEN G_Done(GCur)
                 ELSE G_BroadcastHint([GCur EXCEPT !.gift.tip = t,
                                              !.gift.game = 0])) :
           GiftCommit(r)

\* An awaited send_json of the gift handler's sweep returns or raises; a
\* RuntimeError of the for loop ends the handler in its `except Exception`.
GiftSend(ok) ==
    /\ gift.pc \in {"hint", "update"}
    /\ LET sw == AfterSend(gift.sw, ok) IN
       IF SweepRaises(sw, websocket_clients)
       THEN \E r \in G_Done(GCur) : GiftCommit(r)
       ELSE IF SweepNext(sw, websocket_clients) # {}
       THEN \E c \in SweepNext(sw, websocket_clients) :
                GiftCommit([GCur EXCEPT !.gift.sw = [sw EXCEPT !.cur = c]])
       ELSE \E r \in G_SweepDone([GCur EXCEPT !.clients = @ \ sw.failed]) :
                GiftCommit(r)

\* get_cached_avatar returns to the suspended gift handler.
GiftAvatarReturns ==
    /\ gift.pc = "avatar"
    /\ \E r \in G_Store(GCur) : GiftCommit(r)

\* A further gift arrives while the on_gift task above is still running; the
\* further task is followed as far as its tip request.
GiftArrivesMore ==
    /\ Running
    /\ gift.pc # "idle"
    /\ DOMAIN guesses # {}
    /\ extraTips < MaxExtraGifts
    /\ extraTips' = extraTips + 1
    /\ Dispatch(TRUE)
    /\ UNCHANGED <<gameVars, api_queue, intakeVars, worker, gift, hinting,
                   websocket_clients, shutdown, blog, calls, dropped, auxVars>>

\* fetch_contexto_tip returned None to a further gift task, which ends.
GiftMoreTipFails ==
    /\ extraTips > 0
    /\ extraTips' = extraTips - 1
    /\ UNCHANGED <<gameVars, api_queue, intakeVars, worker, gift, hinting,
                   websocket_clients, shutdown, blog, calls, dropped,
                   timeVars, auxVars>>

\* -------------------------------------------------------------- websockets
\* websocket_handler: a new connection joins the live set.
WsConnect(c) ==
    /\ Running
    /\ c \notin websocket_clients
    /\ c \notin hinting
    /\ websocket_clients' = websocket_clients \cup {c}
    /\ UNCHANGED <<gameVars, api_queue, intakeVars, worker, gift, hinting,
                   shutdown, blog, calls, dropped, timeVars, extraTips,
                   auxVars>>

\* websocket_handler: the message loop of a connection ends (finally:
\* discard).
WsDisconnect(c) ==
    /\ c \in websocket_clients
    /\ c \notin hinting
    /\ websocket_clients' = websocket_clients \ {c}
    /\ UNCHANGED <<gameVars, api_queue, intakeVars, worker, gift, hinting,
                   shutdown, blog, calls, dropped, timeVars, extraTips,
                   auxVars>>

Resets ==
    round - 1 - Cardinality({i \in DOMAIN blog : blog[i].type = "game_start"})

\* websocket_handler, action reset_game.
ResetGame(c, g) ==
    /\ Running
    /\ c \in websocket_clients
    /\ c \notin hinting
    /\ Resets < MaxResets
    /\ InitNewGame(g)
    /\ UNCHANGED <<api_queue, intakeVars, worker, gift, hinting,
                   websocket_clients, shutdown, blog, calls, dropped, timeVars, extraTips,
                   auxVars>>

\* on_connect: the live source connected.
OnConnect(g) ==
    /\ Running
    /\ Resets < MaxResets
    /\ InitNewGame(g)
    /\ UNCHANGED <<api_queue, intakeVars, worker, gift, hinting,
                   websocket_clients, shutdown, blog, calls, dropped, timeVars, extraTips,
                   auxVars>>

\* websocket_handler, action free_hint: handle_free_hint requests a tip when
\* the round has guesses; the handler of connection c awaits it.
FreeHint(c) ==
    /\ Running
    /\ c \in websocket_clients
    /\ c \notin hinting
    /\ DOMAIN guesses # {}
    /\ hinting' = hinting \cup {c}
    /\ Dispatch(TRUE)
    /\ UNCHANGED <<gameVars, api_queue, intakeVars, worker, gift,
                   websocket_clients, shutdown, blog, calls, dropped, extraTips,
                   auxVars>>

\* fetch_contexto_tip returns to handle_free_hint.
FreeHintReturns(c) ==
    /\ c \in hinting
    /\ hinting' = hinting \ {c}
    /\ UNCHANGED <<gameVars, api_queue, intakeVars, worker, gift,
                   websocket_clients, shutdown, blog, calls, dropped, timeVars, extraTips,
                   auxVars>>

\* ---------------------------------------------------------------- shutdown
\* cleanup_background_tasks: api_queue.put(None), then await the worker.
Cleanup ==
    /\ shutdown = NotYet
    /\ shutdown' = enqueued
    /\ api_queue' = Append(api_queue, NoneItem)
    /\ UNCHANGED <<gameVars, intakeVars, worker, gift, hinting,
                   websocket_clients, blog, calls, dropped, timeVars, extraTips,
                   auxVars>>

\* -------------------------------------------------------------------- time
Tick ==
    /\ elapsed < MIN_REQUEST_INTERVAL
    /\ elapsed' = Min(elapsed + TickMs, MIN_REQUEST_INTERVAL)
    /\ UNCHANGED <<gameVars, api_queue, intakeVars, worker, gift, hinting,
                   websocket_clients, shutdown, blog, calls, dropped, extraTips,
                   auxVars>>

\* ------------------------------------------------------- the broadcast hub
\* websocket_handler and broadcast_to_clients with several connections and
\* several broadcast calls in flight.  conn[c]: "new" (no connection yet),
\* "hello" (in the live set, awaiting the send_json of the game_state
\* message), "loop" (in `async for msg in ws`), "busy" (awaiting the
\* broadcast of its reset_game action), "gone" (the handler has ended).
\* An entry of casts is one call of broadcast_to_clients: its event type, the
\* connection whose handler made the call (0: a task that is no websocket
\* handler), st ("sending", "done", "raised") and its sweep; start, stayed,
\* before and after are history: the live set at the call, its members that
\* never left the set since, and the live set around the end of the call.
GameStateMsg ==
    [type |-> "game_state", n |-> 0, game |-> game_number, guesses |-> guesses]

EventMsg(type, k) ==
    [type |-> type, n |-> k, game |-> 0, guesses |-> EmptyGuesses]

\* ws.send_json(m) on connection c writes the frame unless the peer is gone.
Deliver(ib, c, m) ==
    IF c \in broken THEN ib ELSE [ib EXCEPT ![c] = Append(@, m)]

\* The members that left the live set are no longer `stayed` for the calls
\* in flight.
Leave(cs, left) ==
    [i \in DOMAIN cs |->
        IF cs[i].st = "sending" THEN [cs[i] EXCEPT !.stayed = @ \ left]
        ELSE cs[i]]

CastAt(type, by, st, sw) ==
    [type |-> type, by |-> by, st |-> st, sw |-> sw,
     start |-> websocket_clients, stayed |-> websocket_clients,
     before |-> websocket_clients, after |-> websocket_clients]

\* A call of broadcast_to_clients(event): it returns at once when there is no
\* subscriber, else it suspends in the send_json to the first connection.
HubBroadcast(type, by) ==
    LET k == Len(casts) + 1 IN
    IF websocket_clients = {}
    THEN /\ casts' = Append(casts, CastAt(type, by, "done", NoSweep))
         /\ inbox' = inbox
    ELSE \E sw \in BeginSweeps(websocket_clients) :
            /\ casts' = Append(casts, CastAt(type, by, "sending", sw))
            /\ inbox' = Deliver(inbox, sw.cur, EventMsg(type, k))

\* websocket_handler up to its first await: prepare, websocket_clients.add,
\* send_json of the game_state message.
HubConnect(c) ==
    /\ conn[c] = "new"
    /\ websocket_clients' = websocket_clients \cup {c}
    /\ inbox' = Deliver(inbox, c, GameStateMsg)
    /\ conn' = [conn EXCEPT ![c] = "hello"]
    /\ UNCHANGED <<gameVars, coreVars, cacheVars, pureVars, broken, casts>>

\* The send_json of the game_state message returns, or raises: that send is
\* outside the try, the handler ends without websocket_clients.discard.
HubHelloReturns(c) ==
    /\ conn[c] = "hello"
    /\ conn' = [conn EXCEPT ![c] = IF c \in broken THEN "gone" ELSE "loop"]
    /\ UNCHANGED <<gameVars, coreVars, cacheVars, pureVars, websocket_clients, broken, inbox,
                   casts>>

\* The peer of a connection goes away.
HubBreak(c) ==
    /\ conn[c] \in {"hello", "loop", "busy"}
    /\ c \notin broken
    /\ broken' = broken \cup {c}
    /\ UNCHANGED <<gameVars, coreVars, cacheVars, pureVars, websocket_clients, conn, inbox,
                   casts>>

\* `async for msg in ws` ends; finally: websocket_clients.discard(ws).
HubHandlerExit(c) ==
    /\ conn[c] = "loop"
    /\ c \in broken
    /\ websocket_clients' = websocket_clients \ {c}
    /\ conn' = [conn EXCEPT ![c] = "gone"]
    /\ casts' = Leave(casts, {c})
    /\ UNCHANGED <<gameVars, coreVars, cacheVars, pureVars, broken, inbox>>

\* A task stores a guess and broadcasts guess_update, as the worker does
\* (the participant is immaterial to the hub: the first one).
HubGuessUpdate(w) ==
    /\ Len(casts) < MaxCasts
    /\ guesses' = StoreGuess(guesses, w, ContextoDistance(game_number, w), 1)
    /\ guessed_words' = guessed_words \cup {w}
    /\ HubBroadcast("guess_update", 0)
    /\ UNCHANGED <<game_number, round, coreVars, cacheVars, pureVars, websocket_clients,
                   conn, broken>>

\* websocket_handler, action reset_game: init_new_game, then the broadcast
\* of game_start.
HubResetGame(c, g) ==
    /\ Len(casts) < MaxCasts
    /\ conn[c] = "loop"
    /\ c \notin broken
    /\ InitNewGame(g)
    /\ HubBroadcast("game_start", c)
    /\ conn' = [conn EXCEPT ![c] = IF websocket_clients = {} THEN "loop"
                                   ELSE "busy"]
    /\ UNCHANGED <<coreVars, cacheVars, pureVars, websocket_clients, broken>>

\* HubSendReturns whose loop ends by pruning every connection it sent to.
HubSendReturnsPrunesVisited(k) ==
    /\ k \in DOMAIN casts
    /\ casts[k].st = "sending"
    /\ LET ca == casts[k]
           sw == AfterSend(ca.sw, ca.sw.cur \notin broken)
       IN  IF SweepRaises(sw, websocket_clients)
           THEN LET left == IF ca.by = 0 THEN {} ELSE {ca.by} IN
                /\ websocket_clients' = websocket_clients \ left
                /\ casts' = Leave([casts EXCEPT ![k] =
                                      [ca EXCEPT !.st = "raised", !.sw = sw,
                                          !.before = websocket_clients,
                                          !.after = websocket_clients \ left]],
                                  left)
                /\ conn' = IF ca.by = 0 THEN conn
                           ELSE [conn EXCEPT ![ca.by] = "gone"]
                /\ inbox' = inbox
           ELSE IF SweepNext(sw, websocket_clients) # {}
           THEN \E c \in SweepNext(sw, websocket_clients) :
                    /\ casts' = [casts EXCEPT ![k].sw = [sw EXCEPT !.cur = c]]
                    /\ inbox' = Deliver(inbox, c, EventMsg(ca.type, k))
                    /\ UNCHANGED <<websocket_clients, conn>>
           ELSE /\ websocket_clients' = websocket_clients \ sw.visited
                /\ casts' = Leave([casts EXCEPT ![k] =
                                      [ca EXCEPT !.st = "done", !.sw = sw,
                                          !.before = websocket_clients,
                                          !.after = websocket_clients
                                                        \ sw.visited]],
                                  sw.visited)
                /\ conn' = IF ca.by = 0 THEN conn
                           ELSE [conn EXCEPT ![ca.by] = "loop"]
                /\ inbox' = inbox
    /\ UNCHANGED <<gameVars, coreVars, cacheVars, pureVars, broken>>

\* The awaited send_json of call k returns or raises (it raises when the
\* peer is gone).  The loop then asks the set iterator for the next
\* connection: RuntimeError when the set changed size, which leaves
\* broadcast_to_clients (in a websocket handler it reaches the finally);
\* else the send_json to the next connection; else, at the end of the loop,
\* websocket_clients.difference_update(disconnected) and the return.
HubSendReturns(k) ==
    /\ k \in DOMAIN casts
    /\ casts[k].st = "sending"
    /\ LET ca == casts[k]
           sw == AfterSend(ca.sw, ca.sw.cur \notin broken)
       IN  IF SweepRaises(sw, websocket_clients)
           THEN LET left == IF ca.by = 0 THEN {} ELSE {ca.by} IN
                /\ websocket_clients' = websocket_clients \ left
                /\ casts' = Leave([casts EXCEPT ![k] =
                                      [ca EXCEPT !.st = "raised", !.sw = sw,
                                          !.before = websocket_clients,
                                          !.after = websocket_clients \ left]],
                                  left)
                /\ conn' = IF ca.by = 0 THEN conn
                           ELSE [conn EXCEPT ![ca.by] = "gone"]
                /\ inbox' = inbox
           ELSE IF SweepNext(sw, websocket_clients) # {}
           THEN \E c \in SweepNext(sw, websocket_clients) :
                    /\ casts' = [casts EXCEPT ![k].sw = [sw EXCEPT !.cur = c]]
                    /\ inbox' = Deliver(inbox, c, EventMsg(ca.type, k))
                    /\ UNCHANGED <<websocket_clients, conn>>
           ELSE /\ websocket_clients' = websocket_clients \ sw.failed
                /\ casts' = Leave([casts EXCEPT ![k] =
                                      [ca EXCEPT !.st = "done", !.sw = sw,
                                          !.before = websocket_clients,
                                          !.after = websocket_clients
                                                        \ sw.failed]],
                                  sw.failed)
                /\ conn' = IF ca.by = 0 THEN conn
                           ELSE [conn EXCEPT ![ca.by] = "loop"]
                /\ inbox' = inbox
    /\ UNCHANGED <<gameVars, coreVars, cacheVars, pureVars, broken>>

HubInit ==
    /\ conn = [c \in Conns |-> "new"]
    /\ broken = {}
    /\ inbox = [c \in Conns |-> <<>>]
    /\ casts = <<>>

\* --------------------------------------------------------- the avatar cache
\* get_cached_avatar with several calls in flight.  The memory tier is a
\* dict: its entries in insertion order, an assignment to a key it holds
\* keeps the position of the key.  The persistent tier is one file per user
\* hash.  cop records what the last step of get_cached_avatar did: "hit",
\* "promote" (file hit), "miss" (suspended in fetch_func), "none" / "raise"
\* (fetch_func returned None / raised), "insert", "unlink_error",
\* "write_error"; ret is the value returned (0: None, or no return yet);
\* retry tells that the step before was a failed fetch for the same user,
\* fetched is the avatar fetch_func returned (0: none).
UserHash(u) == 17 * u

CacheHashes == {UserHash(u) : u \in CacheUsers}

CacheKeys(d) == {d[i].user : i \in DOMAIN d}

CacheGet(d, u) == (CHOOSE i \in DOMAIN d : d[i].user = u)

\* avatar_cache[u] = a
CacheSet(d, u, a) ==
    IF u \in CacheKeys(d)
    THEN [d EXCEPT ![CacheGet(d, u)].url = a]
    ELSE Append(d, [user |-> u, url |-> a])

\* The newest key instead of next(iter(avatar_cache)).
OldestKeyNewest(d) == d[Len(d)].user

\* next(iter(avatar_cache))
OldestKey(d) == d[1].user

\* del avatar_cache[u]
CacheDel(d, u) == SelectSeq(d, LAMBDA e : e.user # u)

InFlight ==
    LET RECURSIVE Sum(_)
        Sum(S) == IF S = {} THEN 0
                  ELSE LET x == CHOOSE x \in S : TRUE IN
                       fetching[x] + Sum(S \ {x})
    IN  Sum(CacheUsers)

CopAt(kind, u, ret, evicted) ==
    [kind |-> kind, user |-> u, ret |-> ret, evicted |-> evicted,
     tick |-> 1 - cop.tick,
     retry |-> cop.kind \in {"none", "raise"} /\ cop.user = u,
     fetched |-> 0]

\* get_cached_avatar up to its await: a memory hit returns the entry; a
\* readable cache file is copied into the memory tier and returned; else
\* (no file, or read_text raised) the call suspends in fetch_func.
Resolve(u, readOk) ==
    /\ IF u \in CacheKeys(avatar_cache)
       THEN /\ cop' = CopAt("hit", u,
                            avatar_cache[CacheGet(avatar_cache, u)].url, 0)
            /\ UNCHANGED <<avatar_cache, cache_files, fetching>>
       ELSE IF cache_files[UserHash(u)] # 0 /\ readOk
       THEN /\ avatar_cache' =
                   CacheSet(avatar_cache, u, cache_files[UserHash(u)])
            /\ cop' = CopAt("promote", u, cache_files[UserHash(u)], 0)
            /\ UNCHANGED <<cache_files, fetching>>
       ELSE /\ InFlight < MaxInFlight
            /\ fetching' = [fetching EXCEPT ![u] = @ + 1]
            /\ cop' = CopAt("miss", u, 0, 0)
            /\ UNCHANGED <<avatar_cache, cache_files>>
    /\ UNCHANGED <<gameVars, websocket_clients, coreVars, hubVars,
                   pureVars>>

\* FetchFails that remembers the failure in the memory tier.
FetchFailsCached(u, none) ==
    /\ fetching[u] > 0
    /\ fetching' = [fetching EXCEPT ![u] = @ - 1]
    /\ cop' = CopAt(IF none THEN "none" ELSE "raise", u, 0, 0)
    /\ avatar_cache' = CacheSet(avatar_cache, u, 0)
    /\ UNCHANGED cache_files
    /\ UNCHANGED <<gameVars, websocket_clients, coreVars, hubVars,
                   pureVars>>

\* fetch_func returned None (none) or raised (~none): the call returns None.
FetchFails(u, none) ==
    /\ fetching[u] > 0
    /\ fetching' = [fetching EXCEPT ![u] = @ - 1]
    /\ cop' = CopAt(IF none THEN "none" ELSE "raise", u, 0, 0)
    /\ UNCHANGED <<avatar_cache, cache_files>>
    /\ UNCHANGED <<gameVars, websocket_clients, coreVars, hubVars,
                   pureVars>>

\* fetch_func returned avatar a.  At capacity the oldest key goes: its file
\* is unlinked when it exists, then the key is deleted; the avatar is put
\* into the memory tier and written to the cache file.  An unlink or a
\* write_text that raises is caught by the except around the fetch and the
\* call returns None.
FetchReturns(u, a, unlinkOk, writeOk) ==
    /\ fetching[u] > 0
    /\ fetching' = [fetching EXCEPT ![u] = @ - 1]
    /\ LET full == Len(avatar_cache) >= CacheCapacity
           old == IF full THEN OldestKey(avatar_cache) ELSE 0
           unlinks == full /\ cache_files[UserHash(old)] # 0
           d1 == IF full THEN CacheDel(avatar_cache, old) ELSE avatar_cache
           f1 == IF unlinks THEN [cache_files EXCEPT ![UserHash(old)] = 0]
                 ELSE cache_files
       IN  IF unlinks /\ ~unlinkOk
           THEN /\ cop' = [CopAt("unlink_error", u, 0, 0) EXCEPT !.fetched = a]
                /\ UNCHANGED <<avatar_cache, cache_files>>
           ELSE /\ avatar_cache' = CacheSet(d1, u, a)
                /\ IF writeOk
                   THEN /\ cache_files' = [f1 EXCEPT ![UserHash(u)] = a]
                        /\ cop' = [CopAt("insert", u, a, old) EXCEPT
                                      !.fetched = a]
                   ELSE /\ cache_files' = f1
                        /\ cop' = [CopAt("write_error", u, 0, old) EXCEPT
                                      !.fetched = a]
    /\ UNCHANGED <<gameVars, websocket_clients, coreVars, hubVars,
                   pureVars>>

\* The state at start-up: the memory tier is empty; init_avatar_cache keeps
\* the files a previous run left behind.
CacheInit ==
    /\ avatar_cache = <<>>
    /\ cache_files \in [CacheHashes -> Avatars \cup {0}]
    /\ fetching = [u \in CacheUsers |-> 0]
    /\ cop = [kind |-> "start", user |-> 0, ret |-> 0, evicted |-> 0,
              tick |-> 0, retry |-> FALSE, fetched |-> 0]

\* The same with an empty cache directory.
CacheIdle ==
    /\ CacheInit
    /\ cache_files = [h \in CacheHashes |-> 0]

\* ------------------------------------------------- functions of the program
\* pin is the argument a function is applied to, pout what it returned:
\* clean_word on a raw text, the hint request of on_gift and of
\* handle_free_hint on the guesses of a round, the leaderboard of the winner
\* branch on the guesses of a round in insertion order.
NoOutput == [fn |-> "none"]

\* A text is a sequence of characters.  The alphabet has ASCII letters of
\* both cases, an ASCII digit, a space, a symbol, and three characters
\* outside ASCII: a letter, a digit (str.isdigit is true of it) and a space.
Chars == {"a", "b", "B", "7", " ", "!", "e-acute", "arabic-3", "nbsp"}

IsSpace(c) == c \in {" ", "nbsp"}

IsDigit(c) == c \in {"7", "arabic-3"}

IsAsciiLetter(c) == c \in {"a", "b", "B"}

Lower(c) == IF c = "B" THEN "b" ELSE c

Texts == UNION {[1..n -> Chars] : n \in 0..MaxLen}

\* str.strip()
RECURSIVE LStrip(_)
LStrip(t) ==
    IF t # <<>> /\ IsSpace(Head(t)) THEN LStrip(Tail(t)) ELSE t

RECURSIVE RStrip(_)
RStrip(t) ==
    IF t # <<>> /\ IsSpace(t[Len(t)])
    THEN RStrip(SubSeq(t, 1, Len(t) - 1))
    ELSE t

Strip(t) == RStrip(LStrip(t))

\* str.split(): the maximal runs of characters that are no whitespace.
RECURSIVE FirstToken(_)
FirstToken(t) ==
    IF t = <<>> \/ IsSpace(Head(t)) THEN <<>>
    ELSE <<Head(t)>> \o FirstToken(Tail(t))

RECURSIVE Split(_)
Split(t) ==
    LET r == LStrip(t) IN
    IF r = <<>> THEN <<>>
    ELSE LET tok == FirstToken(r) IN
         <<tok>> \o Split(SubSeq(r, Len(tok) + 1, Len(r)))

\* re.sub(r'[^A-Za-z]', '', text)
OnlyLetters(t) == SelectSeq(t, IsAsciiLetter)

\* str.lower() of a text of ASCII letters
LowerText(t) == [i \in DOMAIN t |-> Lower(t[i])]

NoneWord == [none |-> TRUE, value |-> <<>>]

\* clean_word without the digit test.
CleanWordKeepsDigits(text) ==
    LET t == Strip(text) IN
    IF Len(Split(t)) # 1 THEN NoneWord
    ELSE IF Len(OnlyLetters(t)) < 2 THEN NoneWord
    ELSE [none |-> FALSE, value |-> LowerText(OnlyLetters(t))]

CleanWord(text) ==
    LET t == Strip(text) IN
    IF Len(Split(t)) # 1 THEN NoneWord
    ELSE IF \E i \in DOMAIN t : IsDigit(t[i]) THEN NoneWord
    ELSE IF Len(OnlyLetters(t)) < 2 THEN NoneWord
    ELSE [none |-> FALSE, value |-> LowerText(OnlyLetters(t))]

ApplyCleanWord ==
    /\ pin.fn = "clean_word"
    /\ pout = NoOutput
    /\ pout' = [fn |-> "clean_word", ret |-> CleanWord(pin.arg)]
    /\ UNCHANGED <<gameVars, websocket_clients, coreVars, hubVars, cacheVars,
                   pin>>

\* The guesses of a round: a record for every word of a set of words.
Rounds ==
    UNION {[S -> [distance : 0..MaxDistance, user : {1}]] : S \in SUBSET Words}

\* on_gift from the streak filter to the tip request: nothing without
\* guesses, else fetch_contexto_tip(game_number, hint_distance).
GiftRequestsTip ==
    /\ pin.fn = "hint"
    /\ pout = NoOutput
    /\ pout' = [fn |-> "on_gift",
                requests |-> IF DOMAIN pin.arg = {} THEN <<>>
                             ELSE <<HintDistance(pin.arg)>>,
                events |-> <<>>]
    /\ UNCHANGED <<gameVars, websocket_clients, coreVars, hubVars, cacheVars,
                   pin>>

\* handle_free_hint up to the tip request: without guesses a system message
\* is broadcast and the handler returns.
FreeHintRequestsTip ==
    /\ pin.fn = "hint"
    /\ pout = NoOutput
    /\ pout' = [fn |-> "handle_free_hint",
                requests |-> IF DOMAIN pin.arg = {} THEN <<>>
                             ELSE <<HintDistance(pin.arg)>>,
                events |-> IF DOMAIN pin.arg = {} THEN <<"system">> ELSE <<>>]
    /\ UNCHANGED <<gameVars, websocket_clients, coreVars, hubVars, cacheVars,
                   pin>>

\* game_state['guesses'].items(): the entries of the dict in insertion order.
BoardWords == 1..NumBoardWords

BoardDistances == {0, 2, 5, 9}

\* The items of a dict with keys ws (in insertion order) and distances ds.
Items(ws, ds) == [i \in DOMAIN ws |-> [word |-> ws[i], distance |-> ds[i]]]

Distinct(ws) == \A i, j \in DOMAIN ws : ws[i] = ws[j] => i = j

\* InsertSorted that puts an entry in front of the entries of its distance.
InsertSortedBeforeTies(t, e) ==
    LET k == Cardinality({i \in DOMAIN t : t[i].distance < e.distance}) IN
    SubSeq(t, 1, k) \o <<e>> \o SubSeq(t, k + 1, Len(t))

\* sorted(..., key=distance) is stable: an entry comes after the entries
\* before it in the input whose distance is not larger.
InsertSorted(t, e) ==
    LET k == Cardinality({i \in DOMAIN t : t[i].distance <= e.distance}) IN
    SubSeq(t, 1, k) \o <<e>> \o SubSeq(t, k + 1, Len(t))

RECURSIVE SortedGuesses(_)
SortedGuesses(t) ==
    IF t = <<>> THEN <<>>
    ELSE InsertSorted(SortedGuesses(SubSeq(t, 1, Len(t) - 1)), t[Len(t)])

\* sorted(...)[:3]
Leaderboard(t) == SubSeq(SortedGuesses(t), 1, Min(3, Len(t)))

ApplyLeaderboard ==
    /\ pin.fn = "leaderboard"
    /\ pout = NoOutput
    /\ pout' = [fn |-> "leaderboard", ret |-> Leaderboard(pin.arg)]
    /\ UNCHANGED <<gameVars, websocket_clients, coreVars, hubVars, cacheVars,
                   pin>>

PureIdle ==
    /\ pin = [fn |-> "none"]
    /\ pout = NoOutput

PureInit ==
    /\ \/ \E t \in Texts : pin = [fn |-> "clean_word", arg |-> t]
       \/ \E g \in Rounds : pin = [fn |-> "hint", arg |-> g]
       \/ \E n \in 0..NumBoardWords :
             \E ws \in [1..n -> BoardWords] :
                /\ Distinct(ws)
                /\ \E ds \in [1..n -> BoardDistances] :
                       pin = [fn |-> "leaderboard", arg |-> Items(ws, ds)]
    /\ pout = NoOutput

\* ----------------------------------------------------------- specification
\* The state after start_background_tasks: a first game is chosen and the
\* worker waits on the empty queue.
CoreInit ==
    /\ game_number \in Games
    /\ guesses = EmptyGuesses
    /\ guessed_words = {}
    /\ round = 1
    /\ api_queue = <<>>
    /\ ncomments = 0
    /\ enqueued = 0
    /\ commentTasks = {}
    /\ worker = WorkerAt("get")
    /\ gift = GiftAt("idle")
    /\ hinting = {}
    /\ websocket_clients = {}
    /\ shutdown = NotYet
    /\ blog = <<>>
    /\ calls = [i \in ItemIds |-> 0]
    /\ dropped = {}
    /\ extraTips = 0
    /\ elapsed = MIN_REQUEST_INTERVAL
    /\ dupTasks = {}
    /\ dlog = <<>>

Init ==
    /\ CoreInit
    /\ HubInit
    /\ CacheIdle
    /\ PureIdle

Next ==
    \/ \E u \in Users, w \in Words : CommentArrives(u, w)
    \/ \E t \in commentTasks : CommentAvatarReturns(t)
    \/ \E t \in dupTasks : DupAvatarReturns(t)
    \/ \E t \in dupTasks, ok \in BOOLEAN : DupSend(t, ok)
    \/ WorkerGet
    \/ WorkerFetchFails
    \/ WorkerFetchReturns
    \/ \E ok \in BOOLEAN : WorkerSend(ok)
    \/ WorkerWake
    \/ \E u \in Gifters : GiftArrives(u)
    \/ GiftTipFails
    \/ GiftTipReturns
    \/ \E ok \in BOOLEAN : GiftSend(ok)
    \/ GiftAvatarReturns
    \/ \E c \in Clients : WsConnect(c)
    \/ \E c \in Clients : WsDisconnect(c)
    \/ \E c \in Clients, g \in Games : ResetGame(c, g)
    \/ \E g \in Games : OnConnect(g)
    \/ Cleanup

Spec == Init /\ [][Next]_vars

\* Every await of the worker returns: the queue hands over a waiting item,
\* the ranking call answers or times out (timeout=5), a send_json returns or
\* raises, the sleep ends.
FairSpec ==
    /\ Spec
    /\ WF_vars(WorkerGet)
    /\ WF_vars(WorkerFetchFails \/ WorkerFetchReturns)
    /\ WF_vars(\E ok \in BOOLEAN : WorkerSend(ok))
    /\ WF_vars(WorkerWake)

\* The same program with the operator's free hints and the clock.
NextLoad ==
    \/ Next
    \/ \E c \in Clients : FreeHint(c)
    \/ \E c \in Clients : FreeHintReturns(c)
    \/ GiftArrivesMore
    \/ GiftMoreTipFails
    \/ Tick

SpecLoad == Init /\ [][NextLoad]_vars

\* The hub on its own: connections come and go while tasks broadcast.
NextHub ==
    \/ \E c \in Conns : HubConnect(c)
    \/ \E c \in Conns : HubHelloReturns(c)
    \/ \E c \in Conns : HubBreak(c)
    \/ \E c \in Conns : HubHandlerExit(c)
    \/ \E w \in Words : HubGuessUpdate(w)
    \/ \E c \in Conns, g \in Games : HubResetGame(c, g)
    \/ \E k \in 1..MaxCasts : HubSendReturns(k)

SpecHub == Init /\ [][NextHub]_vars

\* The avatar cache on its own: participants are resolved while fetches
\* are in flight.
NextCache ==
    \/ \E u \in CacheUsers, readOk \in BOOLEAN : Resolve(u, readOk)
    \/ \E u \in CacheUsers, none \in BOOLEAN : FetchFails(u, none)
    \/ \E u \in CacheUsers, a \in Avatars, unlinkOk, writeOk \in BOOLEAN :
          FetchReturns(u, a, unlinkOk, writeOk)

InitCache == CoreInit /\ HubInit /\ CacheInit /\ PureIdle

SpecCache == InitCache /\ [][NextCache]_vars

\* The functions applied to every input up to the bounds.
NextPure ==
    \/ ApplyCleanWord
    \/ GiftRequestsTip
    \/ FreeHintRequestsTip
    \/ ApplyLeaderboard

InitPure == CoreInit /\ HubInit /\ CacheIdle /\ PureInit

SpecPure == InitPure /\ [][NextPure]_vars

TypeOK ==
    /\ game_number \in Games
    /\ guessed_words \subseteq Words
    /\ DOMAIN guesses \subseteq Words
    /\ worker.pc \in {"get", "fetch", "sleep", "done"} \cup SweepPcs
    /\ gift.pc \in {"idle", "tip", "hint", "avatar", "update"}
    /\ websocket_clients \subseteq Clients
    /\ enqueued <= ncomments

\* ------------------------------------------------------------------ claims
QueueIds == {api_queue[i].id : i \in DOMAIN api_queue}

BlogIds == {blog[i].id : i \in DOMAIN blog}

IsOutcome(e) == e.type \in {"guess_update", "winner"}

\* The guess_update / winner broadcasts of the worker, in emission order.
WorkerOutcomes == SelectSeq(blog, IsOutcome)

Winners == {w \in DOMAIN guesses : guesses[w].distance = 0}

\* Calls to the ranking service that were dispatched and have not returned.
Outstanding ==
    (IF worker.pc = "fetch" THEN 1 ELSE 0)
    + (IF gift.pc = "tip" THEN 1 ELSE 0)
    + extraTips
    + Cardinality(hinting)

\* A step that starts a call to the ranking service.
DispatchStep ==
    \/ Outstanding' > Outstanding
    \/ worker'.pc = "fetch" /\ worker'.item # worker.item

\* C1: once the round holds a record with distance 0, no step that stays in
\* the round adds a guess record to it.
C1_RoundClosure ==
    [][(HasWinner /\ round' = round) =>
          (DOMAIN guesses' \subseteq DOMAIN guesses)]_vars

\* C2: a record that exists in the round keeps its distance and participant
\* in every step that stays in the round.
C2_FirstWriterWins ==
    [][round' = round =>
          \A w \in DOMAIN guesses :
              w \in DOMAIN guesses' /\ guesses'[w] = guesses[w]]_vars

\* C3: guessed_words is exactly the key set of guesses whenever tasks are
\* suspended.
C3_GuessedWordsAreKeys == guessed_words = DOMAIN guesses

\* A round opened by a reset holds the worker's winning record and a second
\* record next to it.
C3_Witness ==
    /\ round > 1
    /\ HasWinner
    /\ Cardinality(DOMAIN guesses) = 2

\* C4: the current round holds at most one record with distance 0.
C4_AtMostOneWinner == Cardinality(Winners) <= 1

\* C5: the worker's guess_update / winner broadcasts appear in the order in
\* which their items were queued.
C5_OrderPreserved ==
    \A i, j \in DOMAIN WorkerOutcomes :
        i < j => WorkerOutcomes[i].id < WorkerOutcomes[j].id

\* Two items were queued behind each other and both were answered.
C5_Witness ==
    /\ Len(WorkerOutcomes) >= 2
    /\ \E i \in DOMAIN blog : blog[i].type = "guess_update"

\* C6: at most 3 calls to the ranking service are outstanding.
C6_AtMostThreeOutstanding == Outstanding <= SEMAPHORE_PERMITS

\* C7: a call to the ranking service starts no earlier than 100 ms after the
\* start of the one before it.
C7_Throttle == [][DispatchStep => elapsed >= MIN_REQUEST_INTERVAL]_vars

\* C8: the step in which the ranking call of an item returns None leaves
\* game_state and the broadcasts as they are, queues nothing and takes the
\* worker to the top of its loop (the next item, if one waits); an item so
\* dropped was asked about once, has no broadcast and is in no queue.
C8_FailedItemDropped ==
    /\ [][\A id \in dropped' \ dropped :
             /\ UNCHANGED <<game_number, guesses, guessed_words, round>>
             /\ blog' = blog
             /\ QueueIds' \subseteq QueueIds
             /\ worker'.item.id # id
             /\ IF api_queue = <<>> THEN worker'.pc = "get"
                ELSE IF Head(api_queue) = NoneItem THEN worker'.pc = "done"
                ELSE worker'.pc = "fetch" /\ worker'.item = Head(api_queue)
         ]_vars
    /\ [](\A id \in dropped :
             /\ calls[id] = 1
             /\ id \notin BlogIds
             /\ id \notin QueueIds
             /\ worker.item.id # id)

\* An item was dropped in a round that holds the record of the item before
\* it.
C8_Witness ==
    /\ DOMAIN guesses # {}
    /\ \E id \in dropped : id > 1 /\ calls[id - 1] = 1

\* The item is on the queue and was put there before the sentinel, if the
\* sentinel has been put at all.
BeforeSentinel(id) ==
    /\ id \in QueueIds
    /\ shutdown = NotYet \/ id <= shutdown

\* The worker asked the ranking service about the item once and is past it.
Handled(id) == calls[id] = 1 /\ worker.item.id # id

\* The worker's sweep for the item raised before any outcome broadcast.
Raised(id) ==
    /\ \E i \in DOMAIN blog : blog[i].id = id
    /\ \A i \in DOMAIN WorkerOutcomes : WorkerOutcomes[i].id # id
    /\ id \notin dropped
    /\ worker.item.id # id

\* C9: no item gets a second ranking call, and every item queued in front
\* of the sentinel is eventually handled.
C9_NoItemLost ==
    /\ [](\A id \in ItemIds : calls[id] <= 1)
    /\ \A id \in ItemIds : BeforeSentinel(id) ~> Handled(id)

\* An item was handled after the processing of the item before it raised.
C9_Witness ==
    \E id \in ItemIds :
        /\ id + 1 \in ItemIds
        /\ Raised(id)
        /\ Handled(id + 1)

\* C10: once the sentinel is queued the worker eventually leaves its loop,
\* and it has left only after the sentinel was queued and every item queued
\* before it was handled.
C10_Shutdown ==
    /\ [](worker.pc = "done" =>
            /\ shutdown # NotYet
            /\ \A id \in 1..shutdown : Handled(id))
    /\ (shutdown # NotYet) ~> (worker.pc = "done")

\* The worker has ended after handling what was queued before the sentinel;
\* an item queued behind the sentinel is left on the queue.
C10_Witness ==
    /\ worker.pc = "done"
    /\ shutdown >= 1
    /\ api_queue # <<>>

\* --------------------------------------------------------- claims: the hub
Got(c, k) == \E i \in DOMAIN inbox[c] : inbox[c][i].n = k

HubEnded(k) == casts[k].st \in {"done", "raised"}

\* C11: failure isolation.  When the delivery to a subscriber failed during
\* a call of broadcast_to_clients, then once the call is over every other
\* subscriber that was in the live set throughout has received the event;
\* when the sweep has completed, the failing subscriber is no longer in the
\* live set and the call removed no subscriber whose delivery did not fail.
C11_FailureIsolation ==
    \A k \in DOMAIN casts :
        (HubEnded(k) /\ casts[k].sw.failed # {}) =>
            /\ \A c \in casts[k].stayed \ casts[k].sw.failed : Got(c, k)
            /\ casts[k].st = "done" =>
                   /\ casts[k].sw.failed \cap casts[k].after = {}
                   /\ casts[k].before \ casts[k].sw.failed \subseteq
                          casts[k].after

\* C12: per-subscriber ordering.  Broadcast calls are numbered in call order;
\* a subscriber that receives the events of two calls receives the event of
\* the earlier call first.
C12_SubscriberOrder ==
    \A c \in Conns : \A i, j \in DOMAIN inbox[c] :
        (i < j /\ inbox[c][i].n > 0 /\ inbox[c][j].n > 0) =>
            inbox[c][i].n < inbox[c][j].n

GameStates(c) == {i \in DOMAIN inbox[c] : inbox[c][i].type = "game_state"}

\* The connections a completed sweep has pruned after a failed send.
FailedSend ==
    UNION {casts[k].sw.failed : k \in {i \in DOMAIN casts : casts[i].st = "done"}}

Subscribes(c) == conn[c] = "new" /\ conn'[c] # "new"

\* C13: subscribe.  The step that accepts a connection writes one game_state
\* message with the game number and the guesses of that moment to the new
\* connection and nothing to any other connection, and puts the connection
\* into the live set; no connection is ever sent a second game_state message;
\* the connection stays in the live set as long as its handler runs and no
\* sweep has pruned it after a failed send.
C13_Subscribe ==
    /\ [](\A c \in Conns :
            /\ Cardinality(GameStates(c)) = (IF conn[c] = "new" THEN 0 ELSE 1)
            /\ (conn[c] \in {"hello", "loop", "busy"} /\ c \notin FailedSend)
                   => c \in websocket_clients)
    /\ [][\A c \in Conns : Subscribes(c) =>
            /\ inbox'[c] = <<[type |-> "game_state", n |-> 0,
                              game |-> game_number', guesses |-> guesses']>>
            /\ \A d \in Conns \ {c} : inbox'[d] = inbox[d]
            /\ c \in websocket_clients']_vars

\* A connection subscribed to a round that had guesses, and has since been
\* sent a broadcast event while another connection exists.
C13_Witness ==
    \E c \in Conns :
        /\ conn[c] = "loop"
        /\ Len(inbox[c]) >= 2
        /\ inbox[c][1].type = "game_state"
        /\ DOMAIN inbox[c][1].guesses # {}
        /\ \E d \in Conns \ {c} : conn[d] # "new"

\* ------------------------------------------------- claims: the avatar cache
CacheStep(kinds) == cop' # cop /\ cop'.kind \in kinds

Inserted == CacheStep({"insert", "write_error"})

\* C14: FIFO eviction.  A step that puts a fetched avatar into a memory tier
\* that is at capacity evicts exactly the entry at the head of the insertion
\* order: every other entry moves up one place, the evicted participant is
\* left in neither tier unless it is the one being inserted, and the memory
\* tier does not grow.  A memory hit leaves the insertion order as it is.
C14_FifoEviction ==
    [][/\ (Inserted /\ Len(avatar_cache) >= CacheCapacity) =>
            LET first == avatar_cache[1].user IN
            /\ \A i \in 2..Len(avatar_cache) :
                   avatar_cache'[i - 1].user = avatar_cache[i].user
            /\ Len(avatar_cache') \in {Len(avatar_cache) - 1, Len(avatar_cache)}
            /\ cop'.user \in CacheKeys(avatar_cache')
            /\ first # cop'.user =>
                   /\ first \notin CacheKeys(avatar_cache')
                   /\ cache_files'[UserHash(first)] = 0
       /\ CacheStep({"hit"}) => avatar_cache' = avatar_cache
      ]_vars

\* An insertion at capacity has evicted a participant other than the one
\* inserted, and the memory tier is full again.
C14_Witness ==
    /\ cop.kind = "insert"
    /\ cop.evicted # 0
    /\ cop.evicted # cop.user
    /\ Len(avatar_cache) = CacheCapacity
    /\ cache_files[UserHash(cop.evicted)] = 0

Uncached(u) ==
    u \notin CacheKeys(avatar_cache) /\ cache_files[UserHash(u)] = 0

\* C15: a failed fetch is not cached.  The step in which fetch_func returns
\* None or raises returns None and changes neither tier; and when the next
\* step of the cache is a resolve for the same participant, still in
\* neither tier, that resolve calls fetch_func again.
C15_FailureNotCached ==
    [][/\ CacheStep({"none", "raise"}) =>
            /\ cop'.ret = 0
            /\ avatar_cache' = avatar_cache
            /\ cache_files' = cache_files
       /\ (/\ cop.kind \in {"none", "raise"}
           /\ CacheStep({"hit", "promote", "miss"})
           /\ cop'.user = cop.user
           /\ Uncached(cop.user)) =>
            /\ cop'.kind = "miss"
            /\ fetching'[cop.user] = fetching[cop.user] + 1
      ]_vars

\* A participant whose fetch failed has been resolved again and is being
\* fetched a second time, while the memory tier holds other participants.
C15_Witness ==
    /\ cop.kind = "miss"
    /\ cop.retry
    /\ fetching[cop.user] = 1
    /\ Uncached(cop.user)
    /\ avatar_cache # <<>>
    /\ InFlight = 1

\* ------------------------------------------ claims: functions of the program
HintAsked == pout.fn \in {"on_gift", "handle_free_hint"}

\* C16: hint distance.  With guesses of minimum distance m, on_gift and
\* handle_free_hint request exactly one tip, at the distance h with h = 1
\* for m < 2 and 2h <= m < 2h + 2 otherwise, that is max(1, floor(m / 2));
\* without guesses they request no tip and broadcast no hint.
C16_HintDistance ==
    HintAsked =>
        LET g == pin.arg
            D == {g[w].distance : w \in DOMAIN g}
        IN  IF D = {}
            THEN /\ pout.requests = <<>>
                 /\ \A i \in DOMAIN pout.events : pout.events[i] # "hint"
            ELSE \E m \in D :
                    /\ \A d \in D : m <= d
                    /\ Len(pout.requests) = 1
                    /\ LET h == pout.requests[1] IN
                       /\ h >= 1
                       /\ m < 2 => h = 1
                       /\ m >= 2 => (2 * h <= m /\ m < 2 * h + 2)
                       /\ m = 7 => h = 3

\* handle_free_hint asked for distance 3 in a round whose best guess is at
\* distance 7.
C16_Witness ==
    /\ pout.fn = "handle_free_hint"
    /\ pout.requests = <<3>>
    /\ \E w \in DOMAIN pin.arg : pin.arg[w].distance = 7
    /\ \A w \in DOMAIN pin.arg : pin.arg[w].distance >= 7

PosOf(t, w) == CHOOSE i \in DOMAIN t : t[i].word = w

\* Entry a comes before entry b: smaller distance, or the same distance and
\* inserted earlier.
Before(t, a, b) ==
    \/ a.distance < b.distance
    \/ a.distance = b.distance /\ PosOf(t, a.word) < PosOf(t, b.word)

\* C17: the leaderboard.  It has min(3, n) entries, all of them entries of
\* the round; consecutive entries are in ascending distance, equal distances
\* in insertion order; every entry left out comes after every entry on it.
C17_Leaderboard ==
    pout.fn = "leaderboard" =>
        LET t == pin.arg
            b == pout.ret
        IN  /\ Len(b) = Min(3, Len(t))
            /\ \A i \in DOMAIN b : \E j \in DOMAIN t : b[i] = t[j]
            /\ \A i \in DOMAIN b : i > 1 => Before(t, b[i - 1], b[i])
            /\ \A j \in DOMAIN t :
                   (\A i \in DOMAIN b : b[i] # t[j]) =>
                       \A i \in DOMAIN b : Before(t, b[i], t[j])

\* {a:5, b:2, c:9, d:2} with b inserted before d gives [b, d, a].
C17_Witness ==
    /\ pin.fn = "leaderboard"
    /\ pin.arg = <<[word |-> 1, distance |-> 5], [word |-> 2, distance |-> 2],
                   [word |-> 3, distance |-> 9], [word |-> 4, distance |-> 2]>>
    /\ pout.fn = "leaderboard"
    /\ pout.ret = <<[word |-> 2, distance |-> 2], [word |-> 4, distance |-> 2],
                    [word |-> 1, distance |-> 5]>>

\* The places of a text where a whitespace-delimited token starts.
TokenStarts(t) ==
    {i \in DOMAIN t : ~IsSpace(t[i]) /\ (i = 1 \/ IsSpace(t[i - 1]))}

\* C18: clean_word returns None or a text of at least two characters, all of
\* them lowercase ASCII letters; it returns None for every text that has not
\* exactly one whitespace-delimited token and for every text with a digit.
C18_CleanWord ==
    pout.fn = "clean_word" =>
        /\ ~pout.ret.none =>
               /\ Len(pout.ret.value) >= 2
               /\ \A i \in DOMAIN pout.ret.value :
                      pout.ret.value[i] \in {"a", "b"}
        /\ Cardinality(TokenStarts(pin.arg)) # 1 => pout.ret.none
        /\ (\E i \in DOMAIN pin.arg : pin.arg[i] \in {"7", "arabic-3"})
               => pout.ret.none

\* " B!a" is accepted as "ba".
C18_Witness ==
    /\ pin.fn = "clean_word"
    /\ pin.arg = <<" ", "B", "!", "a">>
    /\ pout.fn = "clean_word"
    /\ pout.ret = [none |-> FALSE, value |-> <<"b", "a">>]

\* ------------------------------------------------- claims: the round cycle
\* The worker has recorded a distance-0 guess and called the winner
\* broadcast as its n-th broadcast.
WinnerAt(n) == n \in DOMAIN blog /\ blog[n].type = "winner"

\* After that broadcast the worker has run init_new_game and called the
\* game_start broadcast.
NewRoundAfter(n) ==
    \E j \in DOMAIN blog : j > n /\ blog[j].type = "game_start"

\* C19: won to new round.  Whenever the worker has recorded a guess with
\* distance 0, it eventually starts a new round and broadcasts game_start
\* (unless the program is shut down first).
C19_WonToNewRound ==
    \A n \in 1..(4 * MaxComments) :
        WinnerAt(n) ~> (NewRoundAfter(n) \/ shutdown # NotYet)

\* C20: a sweep survives changes of the live set.  No call of
\* broadcast_to_clients ends by an exception, and when a call is over every
\* subscriber that was in the live set from the call to its end, and whose
\* send did not fail, has received the event.
C20_SweepNotAborted ==
    \A k \in DOMAIN casts :
        /\ casts[k].st # "raised"
        /\ HubEnded(k) =>
               \A c \in casts[k].stayed \ casts[k].sw.failed : Got(c, k)

\* ------------------------------------------- claims: the avatar cache, again
\* C21: bounded memory tier.  Whatever files the cache directory held at
\* start-up and whatever calls of get_cached_avatar were made, avatar_cache
\* never has more entries than its capacity.
C21_BoundedMemoryTier == Len(avatar_cache) <= CacheCapacity

\* C22: persistent-tier failures do not change the answer.  A call whose
\* fetch_func returned an avatar returns that avatar, also when the unlink of
\* the evicted file or the write of the cache file failed; a failed write
\* leaves the cache files as the eviction left them.
C22_FileErrorsDegrade ==
    [][/\ CacheStep({"insert", "write_error", "unlink_error"}) =>
            cop'.ret = cop'.fetched
       /\ CacheStep({"write_error"}) =>
            cache_files'[UserHash(cop'.user)] = cache_files[UserHash(cop'.user)]
                \/ cop'.evicted = cop'.user
      ]_vars

\* ------------------------------------------------ claims: duplicate comments
\* C23: duplicate at intake.  Every step of an on_comment that found its
\* word in guessed_words (the step of the test included) leaves the queue,
\* the count of queued items, the calls of the ranking service and
\* game_state as they are; the handler calls at most one already_guessed
\* broadcast, and that one carries the distance stored for the word at the
\* test.
C23_DuplicateAtIntake ==
    /\ [][dupVars' # dupVars =>
            UNCHANGED <<game_number, guesses, guessed_words, api_queue,
                        enqueued, calls>>]_vars
    /\ [](\A i, j \in DOMAIN dlog :
            /\ dlog[i].n = dlog[j].n => i = j
            /\ dlog[i].distance = dlog[i].seen)
    /\ [][\A t \in dupTasks' \ dupTasks :
            t.pc = "avatar" =>
                /\ t.word \in guessed_words
                /\ t.seen = guesses[t.word].distance]_vars

\* The second of two comments was a duplicate of a recorded word (only the
\* first was queued); its handler has called the already_guessed broadcast
\* and has ended, with a subscriber connected.
C23_Witness ==
    /\ dlog # <<>>
    /\ dupTasks = {}
    /\ ncomments = 2
    /\ enqueued = 1
    /\ \A i \in DOMAIN dlog : dlog[i].word \in DOMAIN guesses
    /\ websocket_clients # {}

\* ------------------------------------------------ claims: round consistency
\* The worker writes the record of the item it holds in this step.
WorkerRecords ==
    /\ Len(blog') > Len(blog)
    /\ \E i \in (Len(blog) + 1)..Len(blog') :
          IsOutcome(blog'[i]) /\ blog'[i].id = worker.item.id

\* C24: round consistency.  When the worker writes the record of an item,
\* the game the distance was requested for is the game of the round the
\* record is written to.
C24_RoundConsistency ==
    [][WorkerRecords => worker.game = game_number]_vars
====
